---- MODULE Spec2Model ----
(***************************************************************************)
(* Std_Types.h (AUTOSAR standard types) as a state machine.                *)
(*                                                                         *)
(* The state is one translation unit that uses the header: the             *)
(* preprocessor's macro table, the list of typedef declarations seen so    *)
(* far, and the objects a user of the header declares with its types (a    *)
(* Std_VersionInfoType, a Std_TransformerError, and the locations a call   *)
(* through a Std_ExtractProtocolHeaderFieldsType pointer writes).  Objects *)
(* are byte arrays laid out from the struct declarations; a field write    *)
(* converts to the field's unsigned type and stores its bytes, a field     *)
(* read loads them.                                                        *)
(***************************************************************************)
EXTENDS Integers, Sequences, FiniteSets, TLC

VARIABLES
  macros,        \* macro table: defined name -> body
  types,         \* typedef declarations of the translation unit, in order
  nIncl,         \* number of #include "Std_Types.h" directives processed
  viLive,        \* whether the Std_VersionInfoType object has been defined
  viMem,         \* bytes of the Std_VersionInfoType object
  viArgs,        \* history: the value last assigned to each of its fields
  teMem,         \* bytes of a Std_TransformerError object (static, zeroed)
  status,        \* Std_ReturnType returned by the last extraction callback
  messageType,   \* *messageType after the last extraction callback
  messageResult  \* *messageResult after the last extraction callback

vars == <<macros, types, nIncl, viLive, viMem, viArgs, teMem, status, messageType, messageResult>>

(***************************************************************************)
(* Bounds of the model.                                                    *)
(***************************************************************************)
\* #include "Std_Types.h" directives in the translation unit
MaxIncludes == 2
\* largest value an earlier (OSEK) header may have given E_OK
MaxPreEOK == 1

(***************************************************************************)
(* Macro bodies.  A body is a number, a reference to another macro, or     *)
(* empty; `file` is the header whose #define created the binding.          *)
(***************************************************************************)
Num(n)  == [kind |-> "num",   val |-> n, ref |-> "", file |-> "Std_Types.h"]
Ref(to) == [kind |-> "ref",   val |-> 0, ref |-> to, file |-> "Std_Types.h"]
Empty   == [kind |-> "empty", val |-> 0, ref |-> "", file |-> "Std_Types.h"]

IsDefined(m, name) == name \in DOMAIN m

\* value of a macro after full expansion; -1 when it names no number
RECURSIVE Expand(_, _)
Expand(m, name) ==
  IF ~IsDefined(m, name) THEN -1
  ELSE IF m[name].kind = "num" THEN m[name].val
  ELSE IF m[name].kind = "ref" THEN Expand(m, m[name].ref)
  ELSE -1

(***************************************************************************)
(* The header's #define directives, by block.                              *)
(***************************************************************************)
\* mutant: the component version define was not raised with release 03.06.00
SwVersionMacros_Stale ==
     ("STD_TYPES_SW_MAJOR_VERSION" :> Num(3))
  @@ ("STD_TYPES_SW_MINOR_VERSION" :> Num(5))
  @@ ("STD_TYPES_SW_PATCH_VERSION" :> Num(0))

SwVersionMacros ==
     ("STD_TYPES_SW_MAJOR_VERSION" :> Num(3))
  @@ ("STD_TYPES_SW_MINOR_VERSION" :> Num(6))
  @@ ("STD_TYPES_SW_PATCH_VERSION" :> Num(0))

IdentityMacros ==
     ("STD_TYPES_VENDOR_ID" :> Num(30))
  @@ ("STD_TYPES_MODULE_ID" :> Num(197))
  @@ ("STD_VENDOR_ID" :> Ref("STD_TYPES_VENDOR_ID"))
  @@ ("STD_MODULE_ID" :> Ref("STD_TYPES_MODULE_ID"))
  @@ ("COMMONASR__COMMON_IMPL_STDTYPES_VERSION" :> Num(774))          \* 0x0306
  @@ ("COMMONASR__COMMON_IMPL_STDTYPES_RELEASE_VERSION" :> Num(0))    \* 0x00
  @@ ("STD_TYPES_AR_RELEASE_MAJOR_VERSION" :> Num(4))
  @@ ("STD_TYPES_AR_RELEASE_MINOR_VERSION" :> Num(7))
  @@ ("STD_TYPES_AR_RELEASE_REVISION_VERSION" :> Num(0))
  @@ ("STD_AR_RELEASE_MAJOR_VERSION" :> Ref("STD_TYPES_AR_RELEASE_MAJOR_VERSION"))
  @@ ("STD_AR_RELEASE_MINOR_VERSION" :> Ref("STD_TYPES_AR_RELEASE_MINOR_VERSION"))
  @@ ("STD_AR_RELEASE_REVISION_VERSION" :> Ref("STD_TYPES_AR_RELEASE_REVISION_VERSION"))
  @@ SwVersionMacros
  @@ ("STD_SW_MAJOR_VERSION" :> Ref("STD_TYPES_SW_MAJOR_VERSION"))
  @@ ("STD_SW_MINOR_VERSION" :> Ref("STD_TYPES_SW_MINOR_VERSION"))
  @@ ("STD_SW_PATCH_VERSION" :> Ref("STD_TYPES_SW_PATCH_VERSION"))

\* mutant: STD_LOW given the value of STD_HIGH
LevelMacros_LowIsOne ==
     ("STD_HIGH" :> Num(1))
  @@ ("STD_LOW" :> Num(1))
  @@ ("STD_ACTIVE" :> Num(1))
  @@ ("STD_IDLE" :> Num(0))
  @@ ("STD_ON" :> Num(1))
  @@ ("STD_OFF" :> Num(0))

LevelMacros ==
     ("STD_HIGH" :> Num(1))
  @@ ("STD_LOW" :> Num(0))
  @@ ("STD_ACTIVE" :> Num(1))
  @@ ("STD_IDLE" :> Num(0))
  @@ ("STD_ON" :> Num(1))
  @@ ("STD_OFF" :> Num(0))

\* mutant: E_OK given the value of E_NOT_OK
StatusMacros_OkIsOne ==
     ("STATUSTYPEDEFINED" :> Empty)
  @@ ("E_OK" :> Num(1))

\* the block inside #ifndef STATUSTYPEDEFINED
StatusMacros ==
     ("STATUSTYPEDEFINED" :> Empty)
  @@ ("E_OK" :> Num(0))

NotOkMacros == ("E_NOT_OK" :> Num(1))

\* mutant: STD_TRANSFORMER_CUSTOM written 0xFEu
TransformerMacros_CustomFE ==
     ("STD_TRANSFORMER_UNSPECIFIED" :> Num(0))
  @@ ("STD_TRANSFORMER_SERIALIZER" :> Num(1))
  @@ ("STD_TRANSFORMER_SAFETY" :> Num(2))
  @@ ("STD_TRANSFORMER_SECURITY" :> Num(3))
  @@ ("STD_TRANSFORMER_CUSTOM" :> Num(254))

TransformerMacros ==
     ("STD_TRANSFORMER_UNSPECIFIED" :> Num(0))
  @@ ("STD_TRANSFORMER_SERIALIZER" :> Num(1))
  @@ ("STD_TRANSFORMER_SAFETY" :> Num(2))
  @@ ("STD_TRANSFORMER_SECURITY" :> Num(3))
  @@ ("STD_TRANSFORMER_CUSTOM" :> Num(255))                           \* 0xFFu

\* mutant: STD_MESSAGERESULT_ERROR given the value of STD_MESSAGERESULT_OK
MessageMacros_ErrorIsZero ==
     ("STD_MESSAGETYPE_REQUEST" :> Num(0))
  @@ ("STD_MESSAGETYPE_RESPONSE" :> Num(1))
  @@ ("STD_MESSAGERESULT_OK" :> Num(0))
  @@ ("STD_MESSAGERESULT_ERROR" :> Num(0))

MessageMacros ==
     ("STD_MESSAGETYPE_REQUEST" :> Num(0))
  @@ ("STD_MESSAGETYPE_RESPONSE" :> Num(1))
  @@ ("STD_MESSAGERESULT_OK" :> Num(0))
  @@ ("STD_MESSAGERESULT_ERROR" :> Num(1))

(***************************************************************************)
(* The header's typedef declarations.                                      *)
(***************************************************************************)
TypeDef(n, b) == [name |-> n, base |-> b]

StatusTypeDecl       == TypeDef("StatusType", "unsigned char")
\* mutant: Std_ReturnType declared 16 bits wide
ReturnTypeDecl_u16   == TypeDef("Std_ReturnType", "uint16")
ReturnTypeDecl       == TypeDef("Std_ReturnType", "uint8")
VersionInfoDecl      == TypeDef("Std_VersionInfoType", "struct")
ErrorCodeDecl        == TypeDef("Std_TransformerErrorCode", "uint8")
\* mutant: Std_TransformerClass declared 16 bits wide
TransformerClassDecl_u16 == TypeDef("Std_TransformerClass", "uint16")
TransformerClassDecl == TypeDef("Std_TransformerClass", "uint8")
MessageTypeDecl      == TypeDef("Std_MessageTypeType", "uint8")
MessageResultDecl    == TypeDef("Std_MessageResultType", "uint8")
TransformerErrorDecl == TypeDef("Std_TransformerError", "struct")
ExtractFnDecl        == TypeDef("Std_ExtractProtocolHeaderFieldsType", "function pointer")

\* typedefs after the STATUSTYPEDEFINED block, in declaration order
PlainTypeDecls ==
  << ReturnTypeDecl, VersionInfoDecl, ErrorCodeDecl, TransformerClassDecl,
     MessageTypeDecl, MessageResultDecl, TransformerErrorDecl, ExtractFnDecl >>

Field(n, t) == [name |-> n, type |-> t]

\* mutant: moduleID still uint8, as before revision 03.03.00
VersionInfoFields_ModuleU8 ==
  << Field("vendorID", "uint16"),
     Field("moduleID", "uint8"),
     Field("sw_major_version", "uint8"),
     Field("sw_minor_version", "uint8"),
     Field("sw_patch_version", "uint8") >>

VersionInfoFields ==
  << Field("vendorID", "uint16"),
     Field("moduleID", "uint16"),
     Field("sw_major_version", "uint8"),
     Field("sw_minor_version", "uint8"),
     Field("sw_patch_version", "uint8") >>

TransformerErrorFields ==
  << Field("errorCode", "Std_TransformerErrorCode"),
     Field("transformerClass", "Std_TransformerClass") >>

\* return and out-parameter types of Std_ExtractProtocolHeaderFieldsType
ExtractReturnType    == "Std_ReturnType"
ExtractMessageType   == "Std_MessageTypeType"
ExtractMessageResult == "Std_MessageResultType"

(***************************************************************************)
(* Widths of the platform's integer types (Platform_Types.h).              *)
(***************************************************************************)
BaseBits(t) ==
  CASE t = "uint8"         -> 8
    [] t = "unsigned char" -> 8
    [] t = "uint16"        -> 16
    [] t = "uint32"        -> 32

IsBase(t) == t \in {"uint8", "unsigned char", "uint16", "uint32"}

AllTypeDecls == <<StatusTypeDecl>> \o PlainTypeDecls

\* the integer type a typedef name stands for
RECURSIVE Resolve(_)
Resolve(t) ==
  IF IsBase(t) THEN t
  ELSE LET i == CHOOSE k \in 1..Len(AllTypeDecls) : AllTypeDecls[k].name = t
       IN  Resolve(AllTypeDecls[i].base)

Bits(t)   == BaseBits(Resolve(t))
SizeOf(t) == Bits(t) \div 8

\* conversion of a non-negative value to the unsigned type t
Conv(x, t) == x % (2 ^ Bits(t))

(***************************************************************************)
(* Object layout: fields in declaration order, each aligned to its size.   *)
(***************************************************************************)
AlignUp(off, a) == ((off + a - 1) \div a) * a

RECURSIVE FieldOffset(_, _)
FieldOffset(fields, i) ==
  IF i = 1 THEN 0
  ELSE AlignUp(FieldOffset(fields, i - 1) + SizeOf(fields[i - 1].type),
               SizeOf(fields[i].type))

StructSize(fields) ==
  FieldOffset(fields, Len(fields)) + SizeOf(fields[Len(fields)].type)

FieldIndex(fields, f) == CHOOSE i \in 1..Len(fields) : fields[i].name = f
FieldNames(fields)    == { fields[i].name : i \in 1..Len(fields) }

\* bytes of x, least significant first, stored at off .. off+size-1
StoreBytes(mem, off, size, x) ==
  [a \in DOMAIN mem |->
     IF a >= off /\ a < off + size
     THEN (x \div (256 ^ (a - off))) % 256
     ELSE mem[a]]

RECURSIVE LoadBytes(_, _, _)
LoadBytes(mem, off, size) ==
  IF size = 0 THEN 0
  ELSE mem[off] + 256 * LoadBytes(mem, off + 1, size - 1)

\* obj.f = x
WriteField(fields, mem, f, x) ==
  LET i == FieldIndex(fields, f)
  IN  StoreBytes(mem, FieldOffset(fields, i), SizeOf(fields[i].type),
                 Conv(x, fields[i].type))

\* obj.f
ReadField(fields, mem, f) ==
  LET i == FieldIndex(fields, f)
  IN  LoadBytes(mem, FieldOffset(fields, i), SizeOf(fields[i].type))

ZeroObject(fields) == [a \in 0..(StructSize(fields) - 1) |-> 0]

(***************************************************************************)
(* Preprocessing the header.                                               *)
(***************************************************************************)
\* mutant: the include guard is missing
GuardOpen_Always(m) == TRUE

\* #ifndef STD_TYPES_H
GuardOpen(m) == ~IsDefined(m, "STD_TYPES_H")

\* mutant: the STATUSTYPEDEFINED guard is missing
StatusGuardOpen_Always(m) == TRUE

\* # ifndef STATUSTYPEDEFINED
StatusGuardOpen(m) == ~IsDefined(m, "STATUSTYPEDEFINED")

\* the macro table after the header's body has been processed
HeaderMacros(m) ==
  LET m1 == ("STD_TYPES_H" :> Empty) @@ m
      m2 == LevelMacros @@ IdentityMacros @@ m1
      m3 == IF StatusGuardOpen(m2) THEN StatusMacros @@ m2 ELSE m2
      m4 == NotOkMacros @@ m3
  IN  MessageMacros @@ TransformerMacros @@ m4

\* the declaration list after the header's body has been processed
HeaderTypes(m, t) ==
  (IF StatusGuardOpen(m) THEN Append(t, StatusTypeDecl) ELSE t) \o PlainTypeDecls

IsDeclared(t, n) == \E i \in 1..Len(t) : t[i].name = n
DeclCount(t, n)  == Cardinality({ i \in 1..Len(t) : t[i].name = n })

Included == IsDefined(macros, "STD_TYPES_H")

(***************************************************************************)
(* Inputs.                                                                 *)
(***************************************************************************)
VendorInputs  == {30, 65535}
\* 65566 = 2^16 + 30 does not fit a uint16
VendorAssignInputs == VendorInputs \cup {65566}
ModuleInputs  == {197, 65535}
VersionInputs == { <<3, 6, 0>>, <<255, 255, 255>> }
FieldInputs(f) ==
  CASE f = "vendorID"         -> VendorAssignInputs
    [] f = "moduleID"         -> ModuleInputs
    [] f = "sw_major_version" -> {3, 255}
    [] f = "sw_minor_version" -> {6, 255}
    [] f = "sw_patch_version" -> {0, 255}
ErrorCodeInputs == {0, 255}
ClassInputs     == {0, 3, 4, 255, 259}
StatusInputs    == {0, 1, 2, 255, 257}
\* <<message type, message result>>
TagInputs       == { <<0, 0>>, <<1, 1>> }

\* what an OSEK header included earlier leaves behind
OsekMacros(v) ==
     ("STATUSTYPEDEFINED" :> [Empty EXCEPT !.file = "Os.h"])
  @@ ("E_OK" :> [Num(v) EXCEPT !.file = "Os.h"])
OsekTypes == << TypeDef("StatusType", "unsigned char") >>

(***************************************************************************)
(* Initial states: a translation unit that has not yet included the        *)
(* header, with or without an earlier OSEK header.                         *)
(***************************************************************************)
Init ==
  /\ \/ macros = << >> /\ types = << >>
     \/ \E v \in 0..MaxPreEOK : macros = OsekMacros(v) /\ types = OsekTypes
  /\ nIncl = 0
  /\ viLive = FALSE
  /\ viMem = ZeroObject(VersionInfoFields)
  /\ viArgs = [f \in FieldNames(VersionInfoFields) |-> 0]
  /\ teMem = ZeroObject(TransformerErrorFields)
  /\ status = 0
  /\ messageType = 0
  /\ messageResult = 0

(***************************************************************************)
(* Actions.                                                                *)
(***************************************************************************)
\* #include "Std_Types.h"
Include ==
  /\ nIncl < MaxIncludes
  /\ nIncl' = nIncl + 1
  /\ IF GuardOpen(macros)
     THEN /\ macros' = HeaderMacros(macros)
          /\ types' = HeaderTypes(macros, types)
     ELSE UNCHANGED <<macros, types>>
  /\ UNCHANGED <<viLive, viMem, viArgs, teMem, status, messageType, messageResult>>

\* Std_VersionInfoType v = { vendor, module, major, minor, patch };
ConstructVersionInfo ==
  /\ IsDeclared(types, "Std_VersionInfoType")
  /\ \E vendor \in VendorInputs, module \in ModuleInputs, ver \in VersionInputs :
       LET a == [vendorID |-> vendor, moduleID |-> module,
                 sw_major_version |-> ver[1],
                 sw_minor_version |-> ver[2],
                 sw_patch_version |-> ver[3]]
           m1 == WriteField(VersionInfoFields, ZeroObject(VersionInfoFields), "vendorID", a.vendorID)
           m2 == WriteField(VersionInfoFields, m1, "moduleID", a.moduleID)
           m3 == WriteField(VersionInfoFields, m2, "sw_major_version", a.sw_major_version)
           m4 == WriteField(VersionInfoFields, m3, "sw_minor_version", a.sw_minor_version)
       IN  /\ viMem' = WriteField(VersionInfoFields, m4, "sw_patch_version", a.sw_patch_version)
           /\ viArgs' = a
           /\ viLive' = TRUE
  /\ UNCHANGED <<macros, types, nIncl, teMem, status, messageType, messageResult>>

\* v.f = x
AssignVersionField(f, x) ==
  /\ viLive
  /\ viMem' = WriteField(VersionInfoFields, viMem, f, x)
  /\ viArgs' = [viArgs EXCEPT ![f] = x]
  /\ UNCHANGED <<macros, types, nIncl, viLive, teMem, status, messageType, messageResult>>

AssignVersionInfo ==
  \E f \in FieldNames(VersionInfoFields) : \E x \in FieldInputs(f) :
    AssignVersionField(f, x)

\* Std_TransformerError e = { code, class };
SetTransformerError ==
  /\ IsDeclared(types, "Std_TransformerError")
  /\ \E code \in ErrorCodeInputs, class \in ClassInputs :
       teMem' = WriteField(TransformerErrorFields,
                  WriteField(TransformerErrorFields, teMem, "errorCode", code),
                  "transformerClass", class)
  /\ UNCHANGED <<macros, types, nIncl, viLive, viMem, viArgs, status, messageType, messageResult>>

\* status = (*extract)(buffer, bufferLength, &messageType, &messageResult);
\* the callee is outside the header: it may return and store any value of
\* the declared types
CallExtract ==
  /\ IsDeclared(types, "Std_ExtractProtocolHeaderFieldsType")
  /\ \E r \in StatusInputs, tags \in TagInputs :
       /\ status' = Conv(r, ExtractReturnType)
       /\ messageType' = Conv(tags[1], ExtractMessageType)
       /\ messageResult' = Conv(tags[2], ExtractMessageResult)
  /\ UNCHANGED <<macros, types, nIncl, viLive, viMem, viArgs, teMem>>

Next ==
  \/ Include
  \/ ConstructVersionInfo
  \/ AssignVersionInfo
  \/ SetTransformerError
  \/ CallExtract

Spec == Init /\ [][Next]_vars

(***************************************************************************)
(* Properties.                                                             *)
(***************************************************************************)
Val(name) == Expand(macros, name)

DefinedHere(name) == IsDefined(macros, name) /\ macros[name].file = "Std_Types.h"

VersionInfo(f)      == ReadField(VersionInfoFields, viMem, f)
TransformerError(f) == ReadField(TransformerErrorFields, teMem, f)

NamedClasses ==
  { Val("STD_TRANSFORMER_UNSPECIFIED"), Val("STD_TRANSFORMER_SERIALIZER"),
    Val("STD_TRANSFORMER_SAFETY"), Val("STD_TRANSFORMER_SECURITY"),
    Val("STD_TRANSFORMER_CUSTOM") }

\* C2: the transformer-class constants are unspecified=0, serializer=1,
\* safety=2, security=3, custom=255, pairwise distinct, and custom is the
\* largest value of the 8-bit type Std_TransformerClass, 2^8 - 1.
C2_TransformerClassValues ==
  Included => /\ Val("STD_TRANSFORMER_UNSPECIFIED") = 0
              /\ Val("STD_TRANSFORMER_SERIALIZER") = 1
              /\ Val("STD_TRANSFORMER_SAFETY") = 2
              /\ Val("STD_TRANSFORMER_SECURITY") = 3
              /\ Val("STD_TRANSFORMER_CUSTOM") = 255
              /\ Cardinality(NamedClasses) = 5
              /\ Bits("Std_TransformerClass") = 8
              /\ Val("STD_TRANSFORMER_CUSTOM") = 2 ^ Bits("Std_TransformerClass") - 1

C2_Witness ==
  Included /\ TransformerError("transformerClass") = Val("STD_TRANSFORMER_CUSTOM")

\* the ranges C3 names for the five fields
ClaimedRange(f) == IF f \in {"vendorID", "moduleID"} THEN 0..65535 ELSE 0..255

\* C3: every field of a version-info record reads back the value last given
\* to it, by construction or by assignment, whenever that value is in
\* 0..65535 (vendorID, moduleID) or 0..255 (the three version fields); so a
\* write of one field leaves the others as they were.
C3_VersionInfoRoundTrip ==
  viLive => \A f \in FieldNames(VersionInfoFields) :
              viArgs[f] \in ClaimedRange(f) => VersionInfo(f) = viArgs[f]

C3_Witness ==
  /\ viLive
  /\ viArgs = [vendorID |-> 30, moduleID |-> 197, sw_major_version |-> 3,
               sw_minor_version |-> 6, sw_patch_version |-> 0]
  /\ VersionInfo("vendorID") = 30
  /\ VersionInfo("moduleID") = 197
  /\ VersionInfo("sw_major_version") = 3
  /\ VersionInfo("sw_minor_version") = 6
  /\ VersionInfo("sw_patch_version") = 0

\* C4: STD_HIGH, STD_ACTIVE and STD_ON are 1, STD_LOW, STD_IDLE and STD_OFF
\* are 0, so each pair is exactly {0,1}.
C4_LevelPairs ==
  Included => /\ Val("STD_HIGH") = 1 /\ Val("STD_LOW") = 0
              /\ Val("STD_ACTIVE") = 1 /\ Val("STD_IDLE") = 0
              /\ Val("STD_ON") = 1 /\ Val("STD_OFF") = 0
              /\ {Val("STD_HIGH"), Val("STD_LOW")} = {0, 1}
              /\ {Val("STD_ACTIVE"), Val("STD_IDLE")} = {0, 1}
              /\ {Val("STD_ON"), Val("STD_OFF")} = {0, 1}

C4_Witness ==
  Included /\ DefinedHere("STD_HIGH") /\ DefinedHere("STD_LOW")
           /\ DefinedHere("STD_ACTIVE") /\ DefinedHere("STD_IDLE")
           /\ DefinedHere("STD_ON") /\ DefinedHere("STD_OFF")

\* C5: the message-type constants are request=0, response=1 and the
\* message-result constants are ok=0, error=1; each pair is exactly {0,1}.
C5_MessageTags ==
  Included => /\ Val("STD_MESSAGETYPE_REQUEST") = 0
              /\ Val("STD_MESSAGETYPE_RESPONSE") = 1
              /\ Val("STD_MESSAGERESULT_OK") = 0
              /\ Val("STD_MESSAGERESULT_ERROR") = 1
              /\ {Val("STD_MESSAGETYPE_REQUEST"), Val("STD_MESSAGETYPE_RESPONSE")} = {0, 1}
              /\ {Val("STD_MESSAGERESULT_OK"), Val("STD_MESSAGERESULT_ERROR")} = {0, 1}

C5_Witness ==
  /\ Included
  /\ messageType = Val("STD_MESSAGETYPE_RESPONSE")
  /\ messageResult = Val("STD_MESSAGERESULT_ERROR")

\* C6 as stated: the class tag of a transformer error record is always one
\* of unspecified, serializer, safety, security, custom.
C6_Original ==
  IsDeclared(types, "Std_TransformerError") =>
    TransformerError("transformerClass") \in NamedClasses

\* C6 (amended): a transformer error record is exactly an error code and a
\* class tag, each an 8-bit value in 0..255; the five named classes are
\* among the values the tag can hold, and the tag can hold the others too.
C6_TransformerErrorRecord ==
  IsDeclared(types, "Std_TransformerError") =>
    /\ FieldNames(TransformerErrorFields) = {"errorCode", "transformerClass"}
    /\ Len(TransformerErrorFields) = 2
    /\ TransformerError("errorCode") \in 0..255
    /\ TransformerError("transformerClass") \in 0..255
    /\ NamedClasses \subseteq 0..255

C6_Witness ==
  /\ IsDeclared(types, "Std_TransformerError")
  /\ TransformerError("errorCode") = 255
  /\ TransformerError("transformerClass") = 4
  /\ TransformerError("transformerClass") \notin NamedClasses

\* C7 as stated: the status an extraction callback returns is 0 or 1 and
\* nothing else.
C7_Original ==
  IsDeclared(types, "Std_ExtractProtocolHeaderFieldsType") => status \in {0, 1}

\* C7 (amended): the status an extraction callback returns is an 8-bit value
\* in 0..255, of which E_NOT_OK = 1 names failure (and E_OK, 0 when the
\* header defines it, success); the other values can be returned as well.
C7_StatusRange ==
  IsDeclared(types, "Std_ExtractProtocolHeaderFieldsType") =>
    /\ status \in 0..255
    /\ Val("E_NOT_OK") = 1
    /\ DefinedHere("E_OK") => Val("E_OK") = 0

C7_Witness ==
  IsDeclared(types, "Std_ExtractProtocolHeaderFieldsType") /\ status = 255

\* C8: once STD_TYPES_H is defined, no step (a further inclusion among
\* them) changes the macro table or the declared types.
C8_IncludeIdempotent ==
  [][Included => (macros' = macros /\ types' = types)]_vars

C8_Witness ==
  Included /\ nIncl >= 2

\* C9: the step that includes the header for the first time defines E_OK
\* (as 0) and declares StatusType exactly when STATUSTYPEDEFINED was not
\* defined before it, and otherwise leaves E_OK as it was; either way it
\* defines E_NOT_OK as 1, declares Std_ReturnType and leaves
\* STATUSTYPEDEFINED defined.
C9_StatusTypeGuard ==
  [][(~Included /\ IsDefined(macros', "STD_TYPES_H")) =>
       /\ IF IsDefined(macros, "STATUSTYPEDEFINED")
          THEN /\ IsDefined(macros', "E_OK") = IsDefined(macros, "E_OK")
               /\ IsDefined(macros, "E_OK") => macros'["E_OK"] = macros["E_OK"]
               /\ DeclCount(types', "StatusType") = DeclCount(types, "StatusType")
          ELSE /\ IsDefined(macros', "E_OK")
               /\ macros'["E_OK"] = Num(0)
               /\ DeclCount(types', "StatusType") = DeclCount(types, "StatusType") + 1
       /\ IsDefined(macros', "E_NOT_OK")
       /\ macros'["E_NOT_OK"] = Num(1)
       /\ DeclCount(types', "Std_ReturnType") = DeclCount(types, "Std_ReturnType") + 1
       /\ IsDefined(macros', "STATUSTYPEDEFINED")
    ]_vars

C9_Witness ==
  /\ Included
  /\ ~DefinedHere("STATUSTYPEDEFINED")
  /\ ~DefinedHere("E_OK")
  /\ Val("E_OK") = 1
  /\ DeclCount(types, "StatusType") = 1

Aliases ==
  { <<"STD_VENDOR_ID", "STD_TYPES_VENDOR_ID", 30>>,
    <<"STD_MODULE_ID", "STD_TYPES_MODULE_ID", 197>>,
    <<"STD_AR_RELEASE_MAJOR_VERSION", "STD_TYPES_AR_RELEASE_MAJOR_VERSION", 4>>,
    <<"STD_AR_RELEASE_MINOR_VERSION", "STD_TYPES_AR_RELEASE_MINOR_VERSION", 7>>,
    <<"STD_AR_RELEASE_REVISION_VERSION", "STD_TYPES_AR_RELEASE_REVISION_VERSION", 0>>,
    <<"STD_SW_MAJOR_VERSION", "STD_TYPES_SW_MAJOR_VERSION", 3>>,
    <<"STD_SW_MINOR_VERSION", "STD_TYPES_SW_MINOR_VERSION", 6>>,
    <<"STD_SW_PATCH_VERSION", "STD_TYPES_SW_PATCH_VERSION", 0>> }

\* the header's own identity, as the arguments of a version-info record
OwnVersion ==
  [vendorID |-> Val("STD_VENDOR_ID"), moduleID |-> Val("STD_MODULE_ID"),
   sw_major_version |-> Val("STD_SW_MAJOR_VERSION"),
   sw_minor_version |-> Val("STD_SW_MINOR_VERSION"),
   sw_patch_version |-> Val("STD_SW_PATCH_VERSION")]

\* C10: each STD_* alias has the value of its STD_TYPES_* counterpart
\* (vendor 30, module 197, release 4.7.0, version 3.6.0); the packed version
\* 0x0306 is major in the high byte and minor in the low byte, the release
\* version 0x00 is the patch version; and the ids and version numbers fit
\* the fields of Std_VersionInfoType they are stored in.
C10_IdentityConsistent ==
  Included =>
    /\ \A a \in Aliases : Val(a[1]) = Val(a[2]) /\ Val(a[2]) = a[3]
    /\ Val("COMMONASR__COMMON_IMPL_STDTYPES_VERSION") = 774
    /\ Val("COMMONASR__COMMON_IMPL_STDTYPES_VERSION") \div 256 = Val("STD_TYPES_SW_MAJOR_VERSION")
    /\ Val("COMMONASR__COMMON_IMPL_STDTYPES_VERSION") % 256 = Val("STD_TYPES_SW_MINOR_VERSION")
    /\ Val("COMMONASR__COMMON_IMPL_STDTYPES_RELEASE_VERSION") = Val("STD_TYPES_SW_PATCH_VERSION")
    /\ \A f \in FieldNames(VersionInfoFields) :
         /\ OwnVersion[f] \in ClaimedRange(f)
         /\ Conv(OwnVersion[f], VersionInfoFields[FieldIndex(VersionInfoFields, f)].type)
              = OwnVersion[f]

C10_Witness ==
  /\ Included
  /\ viLive
  /\ viArgs = OwnVersion
  /\ \A f \in FieldNames(VersionInfoFields) : VersionInfo(f) = OwnVersion[f]

====
